---------------------------- MODULE Spec2Model ----------------------------
(***************************************************************************)
(* A model of the xactor actor runtime: the start operation and the event  *)
(* loop of ActorManager::start_actor (src/src/actor.rs) and the two        *)
(* singleton registries, Service and LocalService (src/src/service.rs).    *)
(*                                                                         *)
(* Addr and Context (addr.rs, context.rs) are not among the sources; the   *)
(* operations of theirs the model needs (send, call, stop, the stream task *)
(* of add_stream, cancel, handle counting) follow the specification.       *)
(***************************************************************************)
EXTENDS Naturals, Sequences, FiniteSets

(* ------------------------------ bounds --------------------------------- *)

\* concurrent callers (tasks); each starts at most one actor
MaxTasks == 2
\* work items ever enqueued on one mailbox
MaxItems == 3
\* distinct message payloads
MaxMsg == 2
\* subscription ids of one kind per actor
MaxSubs == 1
\* Addr::call invocations
MaxCalls == 2
\* stream subscriptions ever made on one actor
MaxStreams == 2
\* items of one stream
MaxStreamLen == 2

Tasks    == 1..MaxTasks
ActorIds == 1..MaxTasks
Msgs     == 1..MaxMsg
SubIds   == 1..MaxSubs
Types    == {"A", "B"}
CallIds  == 1..MaxCalls
Serials  == 1..MaxStreams

VARIABLES
    (* callers *)
    tpc,            \* task -> position in its operation
    top,            \* task -> operation it runs
    ttype,          \* task -> actor type (TypeId::of::<Self>())
    tactor,         \* task -> ActorId of the manager it created (0: none)
    tresult,        \* task -> result of the operation
    tprior,         \* task -> tasks that had returned when it was called
    thook,          \* task -> task whose startup hook made the call (0: none)
    (* registries *)
    regInit,        \* REGISTRY (OnceCell) is initialised
    regLock,        \* task holding the registry mutex (0: free)
    registry,       \* type -> ActorId of the registered Addr (0: no entry)
    localRegistry,  \* type -> ActorId in LOCAL_REGISTRY of the one thread
    (* actors *)
    nextId,         \* next ActorId to hand out
    atype,          \* actor -> type
    phase,          \* actor -> progress of start_actor
    loopPc,         \* actor -> position of the spawned event-loop task
    mailbox,        \* actor -> queued work items
    inflight,       \* actor -> Exec items whose operation is executing
    handles,        \* actor -> live strong producer handles
    streams,        \* actor -> ids in ctx.streams
    intervals,      \* actor -> ids in ctx.intervals
    (* history *)
    enqueued,       \* actor -> every item accepted by the mailbox, in order
    dequeued,       \* actor -> every item the loop has read, in order
    log,            \* actor -> payloads whose handler was invoked, in order
    startedCount,   \* actor -> times started() was invoked
    stoppedCount,   \* actor -> times stopped() has run
    trace,          \* actor -> shutdown steps performed, in order
    exitCount,      \* actor -> times the ExitSignal was fired
    exitReason,     \* actor -> why the loop ended ("none" while it has not)
    cancelled,      \* actor -> subscriptions the shutdown found and cancelled
    pre,            \* actor -> items enqueued when started() returned
    (* channels, actor state, stream tasks *)
    closed,         \* actor -> the mailbox channel has been closed
    acc,            \* actor -> the counter actor's running sum
    calls,          \* call -> outcome of an Addr::call
    owner,          \* actor -> id -> subscription registered under the id
    stask           \* actor -> subscription -> its stream task

taskVars  == <<tpc, top, ttype, tactor, tresult, tprior, thook>>
regVars   == <<regInit, regLock, registry, localRegistry>>
startVars == <<nextId, atype, phase, startedCount>>
loopVars  == <<loopPc, mailbox, inflight, streams, intervals, enqueued,
               dequeued, log, stoppedCount, trace, exitCount, exitReason,
               cancelled>>
extVars   == <<pre, closed, acc, calls, owner, stask>>
vars == <<taskVars, regVars, startVars, loopVars, handles, extVars>>

(* ---------------------------- work items ------------------------------- *)

\* tag tells what an Exec invokes (the handler of a sent or of a called
\* message, a stream callback); ref is the call that waits for the response,
\* or the subscription the item comes from.
Exec(m)         == [kind |-> "Exec", arg |-> m, tag |-> "send", ref |-> 0]
ExecCall(m, c)  == [kind |-> "Exec", arg |-> m, tag |-> "call", ref |-> c]
Stop            == [kind |-> "Stop", arg |-> 0, tag |-> "stop", ref |-> 0]
RemoveStream(i) == [kind |-> "RemoveStream", arg |-> i, tag |-> "remove",
                    ref |-> 0]
\* An Exec invoking a StreamHandler callback (what: "s_started", "s_item",
\* "s_finished") for subscription s.
ExecStream(what, s, v) == [kind |-> "Exec", arg |-> v, tag |-> what, ref |-> s]

Ok(a)  == [kind |-> "ok", id |-> a, err |-> ""]
Err(e) == [kind |-> "err", id |-> 0, err |-> e]
NoResult == [kind |-> "none", id |-> 0, err |-> ""]

\* The outcome of a call: none made, waiting, a response, or an error.
NoCall         == [st |-> "none", arg |-> 0, val |-> 0]
Pending(m)     == [st |-> "pending", arg |-> m, val |-> 0]
Response(m, v) == [st |-> "response", arg |-> m, val |-> v]
CallErr(m, e)  == [st |-> e, arg |-> m, val |-> 0]

\* The calls whose Exec item is in queue q.
CallsIn(q) == {q[i].ref : i \in {j \in 1..Len(q) : q[j].tag = "call"}}

\* A stream task: the id its subscription got, the length of its stream, its
\* position (what it enqueues next), the items it has enqueued, and whether
\* its subscription has been cancelled.
NoTask == [id |-> 0, len |-> 0, pos |-> "none", sent |-> 0, cnc |-> FALSE]

IsPrefix(s, t) == Len(s) <= Len(t) /\ \A i \in 1..Len(s) : s[i] = t[i]

RECURSIVE ExecArgs(_)
ExecArgs(s) ==
    IF s = <<>> THEN <<>>
    ELSE IF Head(s).kind = "Exec" THEN <<Head(s).arg>> \o ExecArgs(Tail(s))
         ELSE ExecArgs(Tail(s))

(* ------------------------------- Init ---------------------------------- *)

Init ==
    /\ tpc = [t \in Tasks |-> "idle"]
    /\ top = [t \in Tasks |-> "none"]
    /\ ttype = [t \in Tasks |-> "A"]
    /\ tactor = [t \in Tasks |-> 0]
    /\ tresult = [t \in Tasks |-> NoResult]
    /\ tprior = [t \in Tasks |-> {}]
    /\ regInit = FALSE
    /\ regLock = 0
    /\ registry = [ty \in Types |-> 0]
    /\ localRegistry = [ty \in Types |-> 0]
    /\ nextId = 1
    /\ atype = [a \in ActorIds |-> "A"]
    /\ phase = [a \in ActorIds |-> "none"]
    /\ loopPc = [a \in ActorIds |-> "none"]
    /\ mailbox = [a \in ActorIds |-> <<>>]
    /\ inflight = [a \in ActorIds |-> <<>>]
    /\ handles = [a \in ActorIds |-> 0]
    /\ streams = [a \in ActorIds |-> {}]
    /\ intervals = [a \in ActorIds |-> {}]
    /\ enqueued = [a \in ActorIds |-> <<>>]
    /\ dequeued = [a \in ActorIds |-> <<>>]
    /\ log = [a \in ActorIds |-> <<>>]
    /\ startedCount = [a \in ActorIds |-> 0]
    /\ stoppedCount = [a \in ActorIds |-> 0]
    /\ trace = [a \in ActorIds |-> <<>>]
    /\ exitCount = [a \in ActorIds |-> 0]
    /\ exitReason = [a \in ActorIds |-> "none"]
    /\ cancelled = [a \in ActorIds |-> [streams |-> {}, intervals |-> {}]]
    /\ thook = [t \in Tasks |-> 0]
    /\ pre = [a \in ActorIds |-> 0]
    /\ closed = [a \in ActorIds |-> FALSE]
    /\ acc = [a \in ActorIds |-> 0]
    /\ calls = [c \in CallIds |-> NoCall]
    /\ owner = [a \in ActorIds |-> [i \in SubIds |-> 0]]
    /\ stask = [a \in ActorIds |-> [s \in Serials |-> NoTask]]

(* --------------------- ActorManager::start_actor ----------------------- *)

\* ActorManager::new(): a fresh mailbox, exit channel and context; the manager
\* holds the one strong producer handle (tx).
NewManager(t, a, ty, ph) ==
    /\ nextId <= MaxTasks
    /\ a = nextId
    /\ nextId' = nextId + 1
    /\ atype' = [atype EXCEPT ![a] = ty]
    /\ phase' = [phase EXCEPT ![a] = ph]
    /\ tactor' = [tactor EXCEPT ![t] = a]

\* The event-loop position after started() returned: spawned (reading the
\* mailbox) on Ok, never spawned on Err (the ? returns before spawn).
AfterStartedNoReturn(ok) == "recv"
AfterStarted(ok) == IF ok THEN "recv" ELSE "none"

\* LocalService::start_service inserts the Addr into LOCAL_REGISTRY only
\* after start_actor(self).await? returned Ok; the ? returns an Err first.
RegistersLocalAlways(op, ok) == op = "loc_start"
RegistersLocal(op, ok) == op = "loc_start" /\ ok

\* The receiver rx is owned by start_actor and moved into the spawned task:
\* when start_actor fails or the task ends, rx is dropped with the items still
\* queued, and with them the response senders of the calls among them.
DroppedWithRxNone(q) == {}
DroppedWithRx(q) == CallsIn(q)

\* The calls a startup hook made and awaits have returned.
HookCallsDone(t) == \A u \in Tasks : thook[u] = t => tpc[u] = "done"

\* The caller of an operation that builds a manager itself (Actor::start).
ManagerNew(t) ==
    /\ tpc[t] = "new"
    /\ \E a \in ActorIds :
         /\ NewManager(t, a, ttype[t], "created")
         /\ handles' = [handles EXCEPT ![a] = 1]
    /\ tpc' = [tpc EXCEPT ![t] = "start_actor"]
    /\ UNCHANGED <<top, ttype, tresult, tprior, thook, regVars, startedCount, loopVars,
                   extVars>>

\* The event-loop position while started() runs: the loop is spawned only
\* after started(&mut ctx).await? has returned.
LoopWhileStartingSpawned == "recv"
LoopWhileStarting == "none"

\* start_actor up to the call of actor.started(&mut ctx).
StartedBegin(t) ==
    /\ tpc[t] = "start_actor"
    /\ phase' = [phase EXCEPT ![tactor[t]] = "starting"]
    /\ startedCount' = [startedCount EXCEPT ![tactor[t]] = @ + 1]
    /\ loopPc' = [loopPc EXCEPT ![tactor[t]] = LoopWhileStarting]
    /\ tpc' = [tpc EXCEPT ![t] = "in_started"]
    /\ UNCHANGED <<top, ttype, tactor, tresult, tprior, thook, regVars, nextId,
                   atype, mailbox, inflight, streams, intervals, enqueued, dequeued, log, stoppedCount, trace, exitCount,
                   exitReason, cancelled, handles, extVars>>

\* started() returned Ok: the loop is spawned and the Addr returned; the
\* manager's tx moves into that Addr. LocalService::start_service then
\* inserts a clone of the Addr into LOCAL_REGISTRY before returning.
StartedOk(t) ==
    LET a == tactor[t] IN
    /\ tpc[t] = "in_started"
    /\ HookCallsDone(t)
    /\ phase' = [phase EXCEPT ![a] = "running"]
    /\ loopPc' = [loopPc EXCEPT ![a] = AfterStarted(TRUE)]
    /\ tresult' = [tresult EXCEPT ![t] = Ok(a)]
    /\ tpc' = [tpc EXCEPT ![t] = "done"]
    /\ IF RegistersLocal(top[t], TRUE)
       THEN /\ localRegistry' = [localRegistry EXCEPT ![ttype[t]] = a]
            /\ handles' = [handles EXCEPT ![a] = @ + 1]
       ELSE UNCHANGED <<localRegistry, handles>>
    /\ pre' = [pre EXCEPT ![a] = Len(enqueued[a])]
    /\ UNCHANGED <<top, ttype, tactor, tprior, thook, regInit, regLock,
                   registry, nextId, atype, startedCount, mailbox, inflight,
                   streams, intervals, enqueued, dequeued, log,
                   stoppedCount, trace, exitCount, exitReason, cancelled,
                   closed, acc, calls, owner, stask>>

\* started() returned Err: the error goes to the caller; actor, context,
\* receiver and the manager's tx are dropped.
StartedErr(t) ==
    LET a == tactor[t] IN
    /\ tpc[t] = "in_started"
    /\ HookCallsDone(t)
    /\ phase' = [phase EXCEPT ![a] = "failed"]
    /\ loopPc' = [loopPc EXCEPT ![a] = AfterStarted(FALSE)]
    /\ IF RegistersLocal(top[t], FALSE)
       THEN /\ localRegistry' = [localRegistry EXCEPT ![ttype[t]] = a]
            /\ UNCHANGED handles
       ELSE /\ handles' = [handles EXCEPT ![a] = @ - 1]
            /\ UNCHANGED localRegistry
    /\ tresult' = [tresult EXCEPT ![t] = Err("started failed")]
    /\ tpc' = [tpc EXCEPT ![t] = "done"]
    /\ pre' = [pre EXCEPT ![a] = Len(enqueued[a])]
    /\ calls' = [c \in CallIds |->
                   IF c \in DroppedWithRx(mailbox[a])
                   THEN CallErr(calls[c].arg, "ResponseLost") ELSE calls[c]]
    /\ UNCHANGED <<top, ttype, tactor, tprior, thook, regInit, regLock,
                   registry, nextId, atype, startedCount, mailbox, inflight,
                   streams, intervals, enqueued, dequeued, log,
                   stoppedCount, trace, exitCount, exitReason, cancelled,
                   closed, acc, owner, stask>>

(* ----------------------------- event loop ------------------------------ *)

\* rx.next(): the oldest queued item, and the queue without it.
RecvNewest(q) == [item |-> q[Len(q)], rest |-> SubSeq(q, 1, Len(q) - 1)]
Recv(q) == [item |-> Head(q), rest |-> Tail(q)]

\* The loop position after the match on a dequeued event: an Exec is awaited
\* to completion, a Stop breaks out of the loop, a RemoveStream loops on.
OnEventStopContinues(kind) == IF kind = "Exec" THEN "exec" ELSE "recv"
OnEventNoAwait(kind) == IF kind = "Stop" THEN "stopped" ELSE "recv"
OnEvent(kind) ==
    CASE kind = "Exec" -> "exec"
      [] kind = "Stop" -> "stopped"
      [] kind = "RemoveStream" -> "recv"

\* The loop position after rx.next() returned None (mailbox closed).
OnClosedSkipsHook == "abort_streams"
OnClosed == "stopped"

\* The order of the statements after the loop.
ShutdownNextExitFirst(pc) ==
    CASE pc = "stopped" -> "send_exit"
      [] pc = "send_exit" -> "abort_streams"
      [] pc = "abort_streams" -> "abort_intervals"
      [] pc = "abort_intervals" -> "done"
ShutdownNext(pc) ==
    CASE pc = "stopped" -> "abort_streams"
      [] pc = "abort_streams" -> "abort_intervals"
      [] pc = "abort_intervals" -> "send_exit"
      [] pc = "send_exit" -> "done"

\* The receiver lives from ActorManager::new until start_actor fails or the
\* spawned task ends.
ReceiverAlive(a) ==
    /\ phase[a] \in {"created", "starting", "running"}
    /\ loopPc[a] # "done"

\* Context is usable while the actor's own code runs: the startup hook, an
\* Exec operation, the shutdown hook.
InActorCode(a) ==
    \/ phase[a] = "starting"
    \/ loopPc[a] = "stopped"
    \/ inflight[a] # <<>>

Dequeue(a) ==
    /\ loopPc[a] = "recv"
    /\ mailbox[a] # <<>>
    /\ mailbox' = [mailbox EXCEPT ![a] = Recv(@).rest]
    /\ dequeued' = [dequeued EXCEPT ![a] = Append(@, Recv(mailbox[a]).item)]
    /\ loopPc' = [loopPc EXCEPT ![a] = OnEvent(Recv(mailbox[a]).item.kind)]

\* ActorEvent::Exec(f) => f(&mut actor, &mut ctx).await -- the operation starts
LoopExec(a) ==
    /\ Dequeue(a)
    /\ Recv(mailbox[a]).item.kind = "Exec"
    /\ inflight' = [inflight EXCEPT ![a] = Append(@, Recv(mailbox[a]).item)]
    /\ log' = [log EXCEPT ![a] = Append(@, Recv(mailbox[a]).item.arg)]
    /\ UNCHANGED <<taskVars, regVars, startVars, handles, streams, intervals,
                   enqueued, stoppedCount, trace, exitCount, exitReason,
                   cancelled,
                   extVars>>

\* The handler of the counter actor: it adds the message's number to the
\* sum and returns the sum.
AddHandlerNoSum(sum, n) == n
AddHandler(sum, n) == sum + n

\* ... and completes (it may have suspended in between): the handler has
\* updated the actor, and a call's response goes to its caller.
ExecEnd(a) ==
    LET item == inflight[a][1]
        sum == AddHandler(acc[a], item.arg) IN
    /\ inflight[a] # <<>>
    /\ item.tag \in {"send", "call"}
    /\ inflight' = [inflight EXCEPT ![a] = Tail(@)]
    /\ loopPc' = [loopPc EXCEPT ![a] = IF @ = "exec" THEN "recv" ELSE @]
    /\ acc' = [acc EXCEPT ![a] = sum]
    /\ calls' = IF item.tag = "call"
                THEN [calls EXCEPT ![item.ref] = Response(item.arg, sum)]
                ELSE calls
    /\ UNCHANGED <<taskVars, regVars, startVars, handles, mailbox, streams,
                   intervals, enqueued, dequeued, log, stoppedCount,
                   trace, exitCount, exitReason, cancelled, pre, closed,
                   owner, stask>>

\* What the default StreamHandler::finished enqueues: ctx.stop(None).
DefaultFinishedNoStop == <<>>
DefaultFinished == <<Stop>>

\* A stream callback completes; finished has stopped the actor.
StreamExecEnd(a) ==
    LET item == inflight[a][1]
        more == IF item.tag = "s_finished" /\ ReceiverAlive(a) /\ ~closed[a]
                THEN DefaultFinished ELSE <<>> IN
    /\ inflight[a] # <<>>
    /\ item.tag \in {"s_started", "s_item", "s_finished"}
    /\ inflight' = [inflight EXCEPT ![a] = Tail(@)]
    /\ loopPc' = [loopPc EXCEPT ![a] = IF @ = "exec" THEN "recv" ELSE @]
    /\ mailbox' = [mailbox EXCEPT ![a] = @ \o more]
    /\ enqueued' = [enqueued EXCEPT ![a] = @ \o more]
    /\ UNCHANGED <<taskVars, regVars, startVars, handles, streams, intervals,
                   dequeued, log, stoppedCount, trace, exitCount, exitReason,
                   cancelled, extVars>>

\* ActorEvent::Stop(_err) => break
LoopStop(a) ==
    /\ Dequeue(a)
    /\ Recv(mailbox[a]).item.kind = "Stop"
    /\ exitReason' = [exitReason EXCEPT ![a] =
                         IF loopPc'[a] = "recv" THEN @ ELSE "stop"]
    /\ UNCHANGED <<taskVars, regVars, startVars, handles, inflight, streams,
                   intervals, enqueued, log, stoppedCount, trace,
                   exitCount,
                   cancelled,
                   extVars>>

\* ActorEvent::RemoveStream(id) => remove id from ctx.streams if present
LoopRemoveStream(a) ==
    /\ Dequeue(a)
    /\ Recv(mailbox[a]).item.kind = "RemoveStream"
    /\ streams' = [streams EXCEPT ![a] = @ \ {Recv(mailbox[a]).item.arg}]
    /\ owner' = [owner EXCEPT ![a][Recv(mailbox[a]).item.arg] = 0]
    /\ UNCHANGED <<taskVars, regVars, startVars, handles, inflight, intervals,
                   enqueued, log, stoppedCount, trace, exitCount,
                   exitReason, cancelled, pre, closed, acc, calls, stask>>

\* The producer handle the Context holds into its own mailbox, for as long as
\* the context exists.
CtxHandlesWeak(a) == 0
CtxHandles(a) == IF ReceiverAlive(a) THEN 1 ELSE 0

\* The channel is closed: torn down, or left without a producer handle.
MailboxClosed(a) == closed[a] \/ handles[a] + CtxHandles(a) = 0

\* rx.next() returns None: the channel is closed and nothing is queued.
LoopClosed(a) ==
    /\ loopPc[a] = "recv"
    /\ mailbox[a] = <<>>
    /\ MailboxClosed(a)
    /\ loopPc' = [loopPc EXCEPT ![a] = OnClosed]
    /\ exitReason' = [exitReason EXCEPT ![a] = "closed"]
    /\ UNCHANGED <<taskVars, regVars, startVars, handles, mailbox, inflight,
                   streams, intervals, enqueued, dequeued, log,
                   stoppedCount, trace, exitCount,
                   cancelled,
                   extVars>>

\* actor.stopped(&mut ctx).await runs to completion
StoppedEnd(a) ==
    /\ loopPc[a] = "stopped"
    /\ stoppedCount' = [stoppedCount EXCEPT ![a] = @ + 1]
    /\ trace' = [trace EXCEPT ![a] = Append(@, "stopped")]
    /\ loopPc' = [loopPc EXCEPT ![a] = ShutdownNext("stopped")]
    /\ UNCHANGED <<taskVars, regVars, startVars, handles, mailbox, inflight,
                   streams, intervals, enqueued, dequeued, log,
                   exitCount, exitReason,
                   cancelled,
                   extVars>>

\* The stream task is alive: it has something left to enqueue.
TaskAlive(tk) == tk.pos \in {"started", "items", "finished", "remove"}

\* AbortHandle::abort on the task of a subscription: an alive task is aborted
\* where it stands; one that has ended is left as it is.
Abort(tk) == [tk EXCEPT !.pos = IF TaskAlive(tk) THEN "aborted" ELSE @,
                        !.cnc = TRUE]

\* The subscriptions registered in ctx.streams.
Registered(a) == {owner[a][i] : i \in streams[a]}

\* Context::abort_streams: every registered stream task is aborted.
abort_streams(a) ==
    /\ stask' = [stask EXCEPT ![a] =
                    [s \in Serials |-> IF s \in Registered(a)
                                       THEN Abort(@[s]) ELSE @[s]]]
    /\ streams' = [streams EXCEPT ![a] = {}]
    /\ owner' = [owner EXCEPT ![a] = [i \in SubIds |-> 0]]
    /\ cancelled' = [cancelled EXCEPT ![a].streams = Registered(a)]

\* Context::abort_intervals: every registered timer task is aborted.
abort_intervals(a) ==
    /\ intervals' = [intervals EXCEPT ![a] = {}]
    /\ cancelled' = [cancelled EXCEPT ![a].intervals = intervals[a]]

\* ctx.abort_streams()
AbortStreams(a) ==
    /\ loopPc[a] = "abort_streams"
    /\ abort_streams(a)
    /\ trace' = [trace EXCEPT ![a] = Append(@, "abort_streams")]
    /\ loopPc' = [loopPc EXCEPT ![a] = ShutdownNext("abort_streams")]
    /\ UNCHANGED <<taskVars, regVars, startVars, handles, mailbox, inflight,
                   intervals, enqueued, dequeued, log, stoppedCount,
                   exitCount, exitReason, pre, closed, acc, calls>>

\* ctx.abort_intervals()
AbortIntervals(a) ==
    /\ loopPc[a] = "abort_intervals"
    /\ abort_intervals(a)
    /\ trace' = [trace EXCEPT ![a] = Append(@, "abort_intervals")]
    /\ loopPc' = [loopPc EXCEPT ![a] = ShutdownNext("abort_intervals")]
    /\ UNCHANGED <<taskVars, regVars, startVars, handles, mailbox, inflight,
                   streams, enqueued, dequeued, log, stoppedCount,
                   exitCount, exitReason,
                   extVars>>

\* tx_exit.send(()).ok(); the task then ends and drops receiver and context.
SendExit(a) ==
    /\ loopPc[a] = "send_exit"
    /\ exitCount' = [exitCount EXCEPT ![a] = @ + 1]
    /\ trace' = [trace EXCEPT ![a] = Append(@, "exit")]
    /\ loopPc' = [loopPc EXCEPT ![a] = ShutdownNext("send_exit")]
    /\ calls' = [c \in CallIds |->
                   IF c \in DroppedWithRx(mailbox[a])
                   THEN CallErr(calls[c].arg, "ResponseLost") ELSE calls[c]]
    /\ UNCHANGED <<taskVars, regVars, startVars, handles, mailbox, inflight,
                   streams, intervals, enqueued, dequeued, log,
                   stoppedCount, exitReason, cancelled, pre, closed, acc,
                   owner, stask>>

(* ------------------- Addr and Context (enqueueing) --------------------- *)

\* A party that can enqueue exists: the actor's own code through its context,
\* the holder of the Addr that start returned, or anyone through the Addr
\* published in a registry.
CanEnqueue(a) ==
    /\ ReceiverAlive(a)
    /\ ~closed[a]
    /\ Len(enqueued[a]) < MaxItems
    /\ \/ InActorCode(a)
       \/ phase[a] = "running" /\ handles[a] > 0
       \/ \E ty \in Types : registry[ty] = a \/ localRegistry[ty] = a

Enqueue(a, ev) ==
    /\ mailbox' = [mailbox EXCEPT ![a] = Append(@, ev)]
    /\ enqueued' = [enqueued EXCEPT ![a] = Append(@, ev)]

\* Addr::send(msg): an Exec item invoking the handler of msg.
Send(a, m) ==
    /\ CanEnqueue(a)
    /\ Enqueue(a, Exec(m))
    /\ UNCHANGED <<taskVars, regVars, startVars, handles, loopPc, inflight,
                   streams, intervals, dequeued, log, stoppedCount,
                   trace, exitCount, exitReason,
                   cancelled,
                   extVars>>

\* Addr::stop / Context::stop: a Stop item.
SendStop(a) ==
    /\ CanEnqueue(a)
    /\ Enqueue(a, Stop)
    /\ UNCHANGED <<taskVars, regVars, startVars, handles, loopPc, inflight,
                   streams, intervals, dequeued, log, stoppedCount,
                   trace, exitCount, exitReason,
                   cancelled,
                   extVars>>

\* Somebody outside the actor holds an Addr of it: the one start returned, or
\* a clone of the one a registry holds.
HoldsAddr(a) ==
    \/ phase[a] = "running" /\ handles[a] > 0
    \/ \E ty \in Types : registry[ty] = a \/ localRegistry[ty] = a

\* Addr::call(msg): an Exec item invoking the handler of msg and sending its
\* return value on a one-shot channel the caller awaits; NotRunning if the
\* mailbox does not take the item.
Call(a, c, m) ==
    /\ HoldsAddr(a)
    /\ calls[c] = NoCall
    /\ \A d \in CallIds : d < c => calls[d] # NoCall
    /\ Len(enqueued[a]) < MaxItems
    /\ IF ReceiverAlive(a) /\ ~closed[a]
       THEN /\ Enqueue(a, ExecCall(m, c))
            /\ calls' = [calls EXCEPT ![c] = Pending(m)]
       ELSE /\ calls' = [calls EXCEPT ![c] = CallErr(m, "NotRunning")]
            /\ UNCHANGED <<mailbox, enqueued>>
    /\ UNCHANGED <<taskVars, regVars, startVars, handles, loopPc, inflight,
                   streams, intervals, dequeued, log, stoppedCount,
                   trace, exitCount, exitReason, cancelled, pre, closed, acc,
                   owner, stask>>

\* The holder of the Addr that start returned drops it.
AddrDrop(a) ==
    /\ phase[a] = "running"
    /\ handles[a] > 0
    /\ \A ty \in Types : registry[ty] # a /\ localRegistry[ty] # a
    /\ handles' = [handles EXCEPT ![a] = @ - 1]
    /\ UNCHANGED <<taskVars, regVars, startVars, loopVars,
                   extVars>>

\* The mailbox channel is torn down from outside the loop.
TearDown(a) ==
    /\ phase[a] = "running"
    /\ ReceiverAlive(a)
    /\ ~closed[a]
    /\ closed' = [closed EXCEPT ![a] = TRUE]
    /\ UNCHANGED <<taskVars, regVars, startVars, loopVars, handles, pre, acc,
                   calls, owner, stask>>

\* Context::add_stream, for the s-th subscription of the actor, to a stream
\* of k items: the smallest free id is registered for it and its stream task
\* spawned.
AddStream(a, s, k) ==
    /\ InActorCode(a)
    /\ \E i \in SubIds :
         /\ i \notin streams[a]
         /\ \A j \in SubIds : j < i => j \in streams[a]
         /\ stask[a][s] = NoTask
         /\ \A r \in Serials : r < s => stask[a][r] # NoTask
         /\ streams' = [streams EXCEPT ![a] = @ \cup {i}]
         /\ owner' = [owner EXCEPT ![a][i] = s]
         /\ stask' = [stask EXCEPT ![a][s] =
                         [id |-> i, len |-> k, pos |-> "started", sent |-> 0,
                          cnc |-> FALSE]]
    /\ UNCHANGED <<taskVars, regVars, startVars, handles, loopPc, mailbox,
                   inflight, intervals, enqueued, dequeued, log, stoppedCount,
                   trace, exitCount, exitReason, cancelled, pre, closed, acc,
                   calls>>

\* What the stream task enqueues at its position, and where it goes then:
\* the started callback, one Exec per item of the stream, at the end of the
\* stream the finished callback, then RemoveStream for its id.
TaskItem(tk, s) ==
    CASE tk.pos = "started"  -> ExecStream("s_started", s, 0)
      [] tk.pos = "items"    -> ExecStream("s_item", s, tk.sent + 1)
      [] tk.pos = "finished" -> ExecStream("s_finished", s, 0)
      [] tk.pos = "remove"   -> [RemoveStream(tk.id) EXCEPT !.ref = s]

TaskNext(tk) ==
    CASE tk.pos = "started" ->
             [tk EXCEPT !.pos = IF tk.len = 0 THEN "finished" ELSE "items"]
      [] tk.pos = "items" ->
             [tk EXCEPT !.sent = @ + 1,
                        !.pos = IF tk.sent + 1 = tk.len THEN "finished"
                                                        ELSE "items"]
      [] tk.pos = "finished" -> [tk EXCEPT !.pos = "remove"]
      [] tk.pos = "remove" -> [tk EXCEPT !.pos = "ended"]

\* A step of the stream task of subscription s.
StreamStep(a, s) ==
    /\ TaskAlive(stask[a][s])
    /\ ReceiverAlive(a)
    /\ ~closed[a]
    /\ Enqueue(a, TaskItem(stask[a][s], s))
    /\ stask' = [stask EXCEPT ![a][s] = TaskNext(@)]
    /\ UNCHANGED <<taskVars, regVars, startVars, handles, loopPc, inflight,
                   streams, intervals, dequeued, log, stoppedCount, trace,
                   exitCount, exitReason, cancelled, pre, closed, acc, calls,
                   owner>>

\* Context::cancel(id): the handle registered under the id is removed and its
\* task aborted; nothing happens without one.
Cancel(a, i) ==
    /\ InActorCode(a)
    /\ i \in streams[a]
    /\ streams' = [streams EXCEPT ![a] = @ \ {i}]
    /\ owner' = [owner EXCEPT ![a][i] = 0]
    /\ stask' = [stask EXCEPT ![a][owner[a][i]] = Abort(@)]
    /\ UNCHANGED <<taskVars, regVars, startVars, handles, loopPc, mailbox,
                   inflight, intervals, enqueued, dequeued, log, stoppedCount,
                   trace, exitCount, exitReason, cancelled, pre, closed, acc,
                   calls>>

\* Context::add_interval: the smallest free id, i, is registered.
AddInterval(a, i) ==
    /\ InActorCode(a)
    /\ i \notin intervals[a]
    /\ \A j \in SubIds : j < i => j \in intervals[a]
    /\ intervals' = [intervals EXCEPT ![a] = @ \cup {i}]
    /\ UNCHANGED <<taskVars, regVars, startVars, handles, loopPc, mailbox,
                   inflight, streams, enqueued, dequeued, log,
                   stoppedCount, trace, exitCount, exitReason,
                   cancelled,
                   extVars>>

(* ------------------------------ callers -------------------------------- *)

\* A call of operation op for type ty begins, made by an independent task or
\* from inside a startup hook that is executing. Callers are interchangeable,
\* so they are taken in the order of their numbers.
Begin(t, op, ty) ==
    /\ tpc[t] = "idle"
    /\ \A u \in Tasks : u < t => tpc[u] # "idle"
    /\ top' = [top EXCEPT ![t] = op]
    /\ ttype' = [ttype EXCEPT ![t] = ty]
    /\ tprior' = [tprior EXCEPT ![t] = {u \in Tasks : tpc[u] = "done"}]
    /\ \E h \in {0} \cup {u \in Tasks : tpc[u] = "in_started"} :
         thook' = [thook EXCEPT ![t] = h]

\* Actor::start: ActorManager::new().start_actor(self)
CallStart(t, ty) ==
    /\ Begin(t, "start", ty)
    /\ tpc' = [tpc EXCEPT ![t] = "new"]
    /\ UNCHANGED <<tactor, tresult, regVars, startVars, loopVars, handles,
                   extVars>>

(* ------------------------- Service (process-wide) ---------------------- *)

\* REGISTRY.get(): the map, if the cell has been initialised.
RegistryGetOrInit(init) == TRUE
RegistryGet(init) == init

\* The match on the entry found for the type.
LookupResultUninit(entry) ==
    IF entry # 0 THEN Ok(entry) ELSE Err("registry not initialized")
LookupResult(entry) ==
    IF entry # 0 THEN Ok(entry) ELSE Err("service not found")

\* start_service: REGISTRY.get_or_init(Default::default)
SvcStartInit(t, ty) ==
    /\ Begin(t, "svc_start", ty)
    /\ regInit' = TRUE
    /\ tpc' = [tpc EXCEPT ![t] = "lock"]
    /\ UNCHANGED <<tactor, tresult, regLock, registry, localRegistry,
                   startVars, loopVars, handles,
                   extVars>>

\* registry.lock().await, in start_service and in from_registry
SvcLock(t) ==
    /\ tpc[t] = "lock"
    /\ regLock = 0
    /\ regLock' = t
    /\ tpc' = [tpc EXCEPT ![t] = IF top[t] = "svc_start" THEN "insert"
                                                         ELSE "lookup"]
    /\ UNCHANGED <<top, ttype, tactor, tresult, tprior, thook, regInit, registry,
                   localRegistry, startVars, loopVars, handles,
                   extVars>>

\* start_service: ActorManager::new(), then its address is inserted under the
\* type, whatever the map held for it.
SvcInsert(t) ==
    /\ tpc[t] = "insert"
    /\ \E a \in ActorIds :
         /\ NewManager(t, a, ttype[t], "created")
         /\ handles' = [handles EXCEPT ![a] = 2]
         /\ registry' = [registry EXCEPT ![ttype[t]] = a]
    /\ tpc' = [tpc EXCEPT ![t] = "unlock"]
    /\ UNCHANGED <<top, ttype, tresult, tprior, thook, regInit, regLock,
                   localRegistry, startedCount, loopVars,
                   extVars>>

\* The holder of the registry mutex once start_service has passed
\* drop(registry): nobody; start_actor is awaited with the guard gone.
GuardKeptAcrossStart(t) == t
GuardAfterDrop(t) == 0

\* start_service: drop(registry); start_actor follows
SvcUnlock(t) ==
    /\ tpc[t] = "unlock"
    /\ regLock' = GuardAfterDrop(t)
    /\ tpc' = [tpc EXCEPT ![t] = "start_actor"]
    /\ UNCHANGED <<top, ttype, tactor, tresult, tprior, thook, regInit, registry,
                   localRegistry, startVars, loopVars, handles,
                   extVars>>

\* from_registry: REGISTRY.get().ok_or("registry not initialized")?
SvcFromGet(t, ty) ==
    /\ Begin(t, "svc_from", ty)
    /\ IF RegistryGet(regInit)
       THEN /\ tpc' = [tpc EXCEPT ![t] = "lock"]
            /\ UNCHANGED tresult
       ELSE /\ tpc' = [tpc EXCEPT ![t] = "done"]
            /\ tresult' = [tresult EXCEPT ![t] = Err("registry not initialized")]
    /\ UNCHANGED <<tactor, regVars, startVars, loopVars, handles,
                   extVars>>

\* from_registry: the lookup under the lock; a clone of the registered Addr
\* or "service not found"; the guard is dropped on return.
SvcLookup(t) ==
    LET r == LookupResult(registry[ttype[t]]) IN
    /\ tpc[t] = "lookup"
    /\ tresult' = [tresult EXCEPT ![t] = r]
    /\ handles' = IF r.kind = "ok" THEN [handles EXCEPT ![r.id] = @ + 1]
                                   ELSE handles
    /\ regLock' = 0
    /\ tpc' = [tpc EXCEPT ![t] = "done"]
    /\ UNCHANGED <<top, ttype, tactor, tprior, thook, regInit, registry,
                   localRegistry, startVars, loopVars,
                   extVars>>

(* ---------------------- LocalService (one thread) ---------------------- *)

\* start_service: the lookup; a registered Addr is returned, otherwise a new
\* manager is built and start_actor runs up to the startup hook. Tasks of one
\* thread interleave only at an await, and the hook's is the first.
LocStartLookup(t, ty) ==
    LET r == LookupResult(localRegistry[ty]) IN
    /\ Begin(t, "loc_start", ty)
    /\ IF r.kind = "ok"
       THEN /\ tresult' = [tresult EXCEPT ![t] = r]
            /\ handles' = [handles EXCEPT ![r.id] = @ + 1]
            /\ tpc' = [tpc EXCEPT ![t] = "done"]
            /\ UNCHANGED <<tactor, startVars>>
       ELSE /\ \E a \in ActorIds :
                 /\ NewManager(t, a, ty, "starting")
                 /\ handles' = [handles EXCEPT ![a] = 1]
                 /\ startedCount' = [startedCount EXCEPT ![a] = @ + 1]
            /\ tpc' = [tpc EXCEPT ![t] = "in_started"]
            /\ UNCHANGED tresult
    /\ UNCHANGED <<regVars, loopVars,
                   extVars>>

\* from_registry: the lookup alone.
LocFrom(t, ty) ==
    LET r == LookupResult(localRegistry[ty]) IN
    /\ Begin(t, "loc_from", ty)
    /\ tresult' = [tresult EXCEPT ![t] = r]
    /\ handles' = IF r.kind = "ok" THEN [handles EXCEPT ![r.id] = @ + 1]
                                   ELSE handles
    /\ tpc' = [tpc EXCEPT ![t] = "done"]
    /\ UNCHANGED <<tactor, regVars, startVars, loopVars,
                   extVars>>

(* --------------------------- specifications ---------------------------- *)

\* One actor started with Actor::start and its event loop. Event loops share
\* no state, so one actor shows every behaviour of a loop. The actor
\* subscribes to one stream, which is empty, and to one timer.
Next ==
    \/ CallStart(1, "A")
    \/ \E t \in Tasks : ManagerNew(t) \/ StartedBegin(t) \/ StartedOk(t)
                        \/ StartedErr(t)
    \/ \E a \in ActorIds :
         \/ LoopExec(a) \/ ExecEnd(a) \/ LoopStop(a) \/ LoopRemoveStream(a)
         \/ LoopClosed(a) \/ StoppedEnd(a) \/ AbortStreams(a)
         \/ AbortIntervals(a) \/ SendExit(a)
         \/ SendStop(a) \/ AddrDrop(a) \/ AddInterval(a, 1) \/ TearDown(a)
         \/ AddStream(a, 1, 0) \/ StreamStep(a, 1) \/ StreamExecEnd(a)
         \/ \E m \in Msgs : Send(a, m)

Spec == Init /\ [][Next]_vars

\* Concurrent callers of the two registries.
NextRegistry ==
    \/ \E t \in Tasks, ty \in Types :
         \/ SvcStartInit(t, ty) \/ SvcFromGet(t, ty)
         \/ LocStartLookup(t, ty) \/ LocFrom(t, ty)
    \/ \E t \in Tasks :
         \/ SvcLock(t) \/ SvcInsert(t) \/ SvcUnlock(t) \/ SvcLookup(t)
         \/ StartedBegin(t) \/ StartedOk(t) \/ StartedErr(t)

SpecRegistry == Init /\ [][NextRegistry]_vars

\* One service actor started with Service::start_service, whose Addr is in
\* the registry from before its startup hook runs, and the senders and callers
\* of its messages.
NextCall ==
    \/ SvcStartInit(1, "A")
    \/ \E t \in Tasks :
         \/ SvcLock(t) \/ SvcInsert(t) \/ SvcUnlock(t)
         \/ StartedBegin(t) \/ StartedOk(t) \/ StartedErr(t)
    \/ \E a \in ActorIds :
         \/ LoopExec(a) \/ ExecEnd(a) \/ LoopStop(a)
         \/ StoppedEnd(a) \/ AbortStreams(a) \/ AbortIntervals(a)
         \/ SendExit(a)
         \/ SendStop(a)
         \/ \E m \in Msgs : Send(a, m)
         \/ \E c \in CallIds, m \in Msgs : Call(a, c, m)

\* The steps of the task running start_service, and of the spawned loop task.
\* Hooks and handlers terminate and the scheduler is fair: a task that can
\* step eventually does.
StartStep(t) ==
    \/ SvcLock(t) \/ SvcInsert(t) \/ SvcUnlock(t)
    \/ StartedBegin(t) \/ StartedOk(t) \/ StartedErr(t)

LoopStep(a) ==
    \/ LoopExec(a) \/ ExecEnd(a) \/ LoopStop(a)
    \/ StoppedEnd(a) \/ AbortStreams(a) \/ AbortIntervals(a) \/ SendExit(a)

SpecCall ==
    /\ Init /\ [][NextCall]_vars
    /\ \A t \in Tasks : WF_vars(StartStep(t))
    /\ \A a \in ActorIds : WF_vars(LoopStep(a))

\* One actor started with Actor::start that subscribes to finite streams and
\* cancels subscriptions, from its startup hook, its stream callbacks and its
\* shutdown hook.
NextStream ==
    \/ CallStart(1, "A")
    \/ \E t \in Tasks : ManagerNew(t) \/ StartedBegin(t) \/ StartedOk(t)
                        \/ StartedErr(t)
    \/ \E a \in ActorIds :
         \/ LoopExec(a) \/ StreamExecEnd(a) \/ LoopStop(a)
         \/ LoopRemoveStream(a) \/ StoppedEnd(a) \/ AbortStreams(a)
         \/ AbortIntervals(a) \/ SendExit(a)
         \/ \E s \in Serials :
              \/ StreamStep(a, s)
              \/ \E k \in 0..MaxStreamLen : AddStream(a, s, k)
         \/ \E i \in SubIds : Cancel(a, i)

SpecStream == Init /\ [][NextStream]_vars

\* One actor started with Actor::start that subscribes to one finite stream
\* and never cancels it.
NextLifecycle ==
    \/ CallStart(1, "A")
    \/ \E t \in Tasks : ManagerNew(t) \/ StartedBegin(t) \/ StartedOk(t)
                        \/ StartedErr(t)
    \/ \E a \in ActorIds :
         \/ LoopExec(a) \/ StreamExecEnd(a) \/ LoopStop(a)
         \/ LoopRemoveStream(a) \/ StoppedEnd(a) \/ AbortStreams(a)
         \/ AbortIntervals(a) \/ SendExit(a)
         \/ StreamStep(a, 1)
         \/ \E k \in 0..MaxStreamLen : AddStream(a, 1, k)

\* The steps of the task running Actor::start, and of the spawned loop task.
ActorStartStep(t) ==
    ManagerNew(t) \/ StartedBegin(t) \/ StartedOk(t) \/ StartedErr(t)

StreamLoopStep(a) ==
    \/ LoopExec(a) \/ StreamExecEnd(a) \/ LoopStop(a) \/ LoopRemoveStream(a)
    \/ StoppedEnd(a) \/ AbortStreams(a) \/ AbortIntervals(a) \/ SendExit(a)

\* Hooks and callbacks terminate, a finite stream yields its items, and the
\* scheduler is fair to every task.
SpecLifecycle ==
    /\ Init /\ [][NextLifecycle]_vars
    /\ \A t \in Tasks : WF_vars(ActorStartStep(t))
    /\ \A a \in ActorIds : WF_vars(StreamLoopStep(a))
    /\ \A a \in ActorIds : WF_vars(StreamStep(a, 1))

(* ------------------------------- claims -------------------------------- *)

\* The operation that built actor a.
CreatorOp(a) ==
    IF \E t \in Tasks : tactor[t] = a
    THEN top[CHOOSE t \in Tasks : tactor[t] = a]
    ELSE "none"

\* An instance whose startup hook has been entered and has not failed.
Live(a) == phase[a] \in {"starting", "running"}

HasStop(q) == \E i \in 1..Len(q) : q[i].kind = "Stop"

\* C1: of two successive Service::start_service calls for one actor type, the
\* second returns the Addr the first returned and builds no actor of its own:
\* the value passed to it gets no started() call, no event loop, and the
\* registry entry stays the first call's.
C1_StartServiceIdempotent ==
    \A t1, t2 \in Tasks :
        ( /\ t1 \in tprior[t2]
          /\ top[t1] = "svc_start" /\ top[t2] = "svc_start"
          /\ ttype[t1] = ttype[t2]
          /\ tresult[t1].kind = "ok"
          /\ tpc[t2] = "done" )
        => /\ tresult[t2] = tresult[t1]
           /\ tactor[t2] = 0

\* C2: within one registry category at most one instance of an actor type is
\* ever started and running at a time, and all callers of start_service get
\* the same ActorId, whatever the interleaving.
C2_AtMostOneInstance ==
    /\ \A a1, a2 \in ActorIds :
         ( /\ Live(a1) /\ Live(a2)
           /\ atype[a1] = atype[a2]
           /\ CreatorOp(a1) = CreatorOp(a2)
           /\ CreatorOp(a1) \in {"svc_start", "loc_start"} )
         => a1 = a2
    /\ \A t1, t2 \in Tasks :
         ( /\ top[t1] = top[t2] /\ top[t1] \in {"svc_start", "loc_start"}
           /\ ttype[t1] = ttype[t2]
           /\ tresult[t1].kind = "ok" /\ tresult[t2].kind = "ok" )
         => tresult[t1].id = tresult[t2].id

\* The thread-confined half of C2 alone.
C2_LocalAtMostOne ==
    \A a1, a2 \in ActorIds :
        ( /\ Live(a1) /\ Live(a2)
          /\ atype[a1] = atype[a2]
          /\ CreatorOp(a1) = "loc_start" /\ CreatorOp(a2) = "loc_start" )
        => a1 = a2

\* C3: Stop is a hard stop. A Stop is the last item the loop ever reads, so
\* nothing queued behind it or enqueued later is executed; handlers run only
\* for items the loop has read; stopped() runs once.
C3_HardStop ==
    \A a \in ActorIds :
        /\ \A i \in 1..Len(dequeued[a]) :
             dequeued[a][i].kind = "Stop" => i = Len(dequeued[a])
        /\ HasStop(dequeued[a]) =>
             /\ loopPc[a] \notin {"recv", "exec"}
             /\ inflight[a] = <<>>
        /\ log[a] = ExecArgs(dequeued[a])
        /\ stoppedCount[a] <= 1
        /\ (HasStop(dequeued[a]) /\ loopPc[a] = "done") => stoppedCount[a] = 1

\* C3 witness: the loop ended on a Stop with items still queued behind it.
C3_Witness ==
    \E a \in ActorIds :
        /\ HasStop(dequeued[a])
        /\ loopPc[a] = "done"
        /\ stoppedCount[a] = 1
        /\ \E i \in 1..Len(mailbox[a]) : mailbox[a][i].kind = "Exec"
        /\ \E i \in 1..Len(mailbox[a]) : mailbox[a][i].kind = "RemoveStream"

\* C4: serialized execution. At most one Exec operation of an actor is
\* executing, and while one is, the loop waits for it (it has read nothing
\* since that item).
C4_Serialized ==
    \A a \in ActorIds :
        /\ Len(inflight[a]) <= 1
        /\ inflight[a] # <<>> =>
             /\ loopPc[a] = "exec"
             /\ dequeued[a] # <<>>
             /\ inflight[a][1] = dequeued[a][Len(dequeued[a])]

\* C4 witness: a handler is suspended while two more items wait in the mailbox.
C4_Witness ==
    \E a \in ActorIds :
        /\ Len(inflight[a]) = 1
        /\ Len(mailbox[a]) >= 2

\* C5: FIFO delivery. Handlers are invoked in submission order: the payloads
\* handled are a prefix of the payloads submitted, and with no Stop submitted
\* an idle loop with an empty mailbox has handled all of them.
C5_Fifo ==
    \A a \in ActorIds :
        /\ IsPrefix(log[a], ExecArgs(enqueued[a]))
        /\ ( /\ ~HasStop(enqueued[a])
             /\ mailbox[a] = <<>>
             /\ phase[a] = "running" )
           => log[a] = ExecArgs(enqueued[a])

\* C5 witness: three messages, not all alike, have been handled with no Stop.
C5_Witness ==
    \E a \in ActorIds :
        /\ ~HasStop(enqueued[a])
        /\ Len(log[a]) = 3
        /\ log[a][1] # log[a][2]
        /\ mailbox[a] = <<>>

\* C6: a failed startup hook. The error is what the caller gets, no loop task
\* exists, no item is read or executed, stopped() never runs and the exit
\* signal is never fired.
C6_StartedFailure ==
    /\ \A a \in ActorIds :
         phase[a] = "failed" =>
             /\ loopPc[a] = "none"
             /\ dequeued[a] = <<>>
             /\ log[a] = <<>>
             /\ inflight[a] = <<>>
             /\ stoppedCount[a] = 0
             /\ exitCount[a] = 0
    /\ \A t \in Tasks :
         (tpc[t] = "done" /\ top[t] = "start") =>
             IF phase[tactor[t]] = "failed"
             THEN tresult[t] = Err("started failed")
             ELSE tresult[t] = Ok(tactor[t])

\* C6 witness: the hook failed after enqueueing work on its own mailbox.
C6_Witness ==
    \E t \in Tasks :
        /\ tpc[t] = "done"
        /\ tresult[t] = Err("started failed")
        /\ Len(mailbox[tactor[t]]) >= 2

\* C7: no partially-started actor is observable: Service::from_registry never
\* resolves to an actor whose startup hook failed or has not completed.
C7_NoPartiallyStarted ==
    \A t \in Tasks :
        (top[t] = "svc_from" /\ tresult[t].kind = "ok")
        => phase[tresult[t].id] = "running"

\* C8: shutdown order. stopped(), then the stream cancellations, then the
\* timer cancellations, then the exit signal, which fires at most once and
\* only with the hook run and no subscription left.
C8_ShutdownOrder ==
    \A a \in ActorIds :
        /\ IsPrefix(trace[a],
                    <<"stopped", "abort_streams", "abort_intervals", "exit">>)
        /\ exitCount[a] <= 1
        /\ exitCount[a] = 1 =>
             /\ stoppedCount[a] = 1
             /\ streams[a] = {}
             /\ \A s \in cancelled[a].streams : ~TaskAlive(stask[a][s])
             /\ intervals[a] = {}
             /\ Len(trace[a]) = 4

\* C8 witness: the signal fired after a shutdown that found a stream and a
\* timer subscription to cancel.
C8_Witness ==
    \E a \in ActorIds :
        /\ exitCount[a] = 1
        /\ cancelled[a].streams # {}
        /\ cancelled[a].intervals # {}

\* C9: stopped() runs exactly once per started actor, after the loop ended,
\* for either reason the loop ends (a Stop read, or the mailbox closed), and
\* never while the loop is consuming.
C9_StoppedOnce ==
    \A a \in ActorIds :
        /\ loopPc[a] \in {"none", "recv", "exec", "stopped"} =>
             stoppedCount[a] = 0
        /\ loopPc[a] \in {"abort_streams", "abort_intervals", "send_exit",
                          "done"} =>
             stoppedCount[a] = 1
        /\ loopPc[a] \in {"none", "recv", "exec"} <=> exitReason[a] = "none"
        /\ exitReason[a] = "stop" <=> HasStop(dequeued[a])

\* C9 witness: the loop ended because the mailbox closed, and stopped() ran.
C9_Witness ==
    \E a \in ActorIds :
        /\ exitReason[a] = "closed"
        /\ loopPc[a] = "done"
        /\ stoppedCount[a] = 1

\* Some Service::start_service call has run (its get_or_init at least).
EverStarted == \E u \in Tasks : top[u] = "svc_start"

C11_FromRegistryStartsService ==
    \A t \in Tasks :
        (top[t] = "svc_from" /\ tpc[t] = "done" /\ ~EverStarted)
        => /\ tresult[t].kind = "ok"
           /\ phase[tresult[t].id] = "running"


\* A LocalService::start_service call for type ty had returned Ok when task t
\* was called.
LocalStartedBefore(t, ty) ==
    \E u \in tprior[t] :
        top[u] = "loc_start" /\ ttype[u] = ty /\ tresult[u].kind = "ok"

\* C20: a failed LocalService::start_service leaves the thread's registry as
\* it was. The caller gets the error and no entry is inserted for the failed
\* instance (every entry is a started actor); with no successful start in
\* between, a following from_registry fails with "service not found" and a
\* following start_service starts a fresh instance.
C20_FailedLocalStart ==
    /\ \A ty \in Types :
         localRegistry[ty] # 0 => phase[localRegistry[ty]] = "running"
    /\ \A t \in Tasks :
         ( /\ top[t] = "loc_start" /\ tpc[t] = "done"
           /\ tactor[t] # 0 /\ phase[tactor[t]] = "failed" )
         => /\ tresult[t] = Err("started failed")
            /\ localRegistry[ttype[t]] # tactor[t]
    /\ \A t1, t2 \in Tasks :
         ( /\ t1 \in tprior[t2]
           /\ top[t1] = "loc_start" /\ tresult[t1].kind = "err"
           /\ ttype[t2] = ttype[t1]
           /\ ~LocalStartedBefore(t2, ttype[t2]) )
         => /\ top[t2] = "loc_from" =>
                 tresult[t2] = Err("service not found")
            /\ top[t2] = "loc_start" =>
                 /\ tactor[t2] \notin {0, tactor[t1]}
                 /\ startedCount[tactor[t2]] = 1

\* C20 witness: after a failed start, a second start_service for the type
\* started an instance of its own and registered it.
C20_Witness ==
    \E t1, t2 \in Tasks :
        /\ t1 \in tprior[t2]
        /\ top[t1] = "loc_start" /\ tresult[t1].kind = "err"
        /\ top[t2] = "loc_start" /\ ttype[t2] = ttype[t1]
        /\ tresult[t2] = Ok(tactor[t2])
        /\ localRegistry[ttype[t2]] = tactor[t2]


\* The steps of a task inside the critical section of the registry mutex.
InCriticalSection(t) == tpc[t] \in {"insert", "unlock", "lookup"}

\* C16: the registry lock is held only during the lookup-or-insert critical
\* section: its holder is never awaiting start_actor, executing a startup
\* hook or past its call. So a call of Service::start_service or
\* from_registry made from inside a startup hook never deadlocks on the lock:
\* whoever waits for it finds it free or held by a task that can step on.
C16_LockOnlyInCriticalSection ==
    /\ regLock # 0 => InCriticalSection(regLock)
    /\ \A t \in Tasks :
         tpc[t] \in {"start_actor", "in_started", "done"} => regLock # t
    /\ \A t \in Tasks :
         (tpc[t] = "lock" /\ regLock # 0) =>
             ENABLED (SvcInsert(regLock) \/ SvcUnlock(regLock)
                      \/ SvcLookup(regLock))

\* C16 witness: while the startup hook of a service started by start_service
\* executes, a start_service call made from inside it has taken the lock,
\* inserted its own entry and released the lock.
C16_Witness ==
    \E h, u \in Tasks :
        /\ top[h] = "svc_start" /\ tpc[h] = "in_started"
        /\ thook[u] = h
        /\ top[u] = "svc_start"
        /\ tpc[u] \in {"start_actor", "in_started", "done"}
        /\ registry[ttype[u]] = tactor[u]


C12_CallCompletes ==
    \A c \in CallIds :
        (calls[c].st = "pending")
            ~> (calls[c].st \in {"response", "NotRunning", "ResponseLost"})

\* C12 witness: a call whose Exec was still queued when the loop ended on a
\* Stop has failed with ResponseLost.
C12_Witness ==
    \E a \in ActorIds, c \in CallIds :
        /\ HasStop(dequeued[a])
        /\ loopPc[a] = "done"
        /\ c \in CallsIn(mailbox[a])
        /\ calls[c].st = "ResponseLost"


\* The sum of the numbers of the messages in queue q.
RECURSIVE SumArgs(_)
SumArgs(q) ==
    IF q = <<>> THEN 0
    ELSE (IF Head(q).tag \in {"send", "call"} THEN Head(q).arg ELSE 0)
         + SumArgs(Tail(q))

\* The place of the Exec of call c in queue q.
PosOfCall(q, c) == CHOOSE i \in 1..Len(q) : q[i].tag = "call" /\ q[i].ref = c

\* C14: the call round trip of the counter actor. The response of a call of
\* Add(n) is the sum the handler returned for that very call: the numbers of
\* all messages ahead of it in the mailbox plus its own n, and it reaches the
\* caller that made the call.
C14_RunningSum ==
    \A c \in CallIds :
        calls[c].st = "response" =>
            \E a \in ActorIds :
                /\ c \in CallsIn(enqueued[a])
                /\ LET i == PosOfCall(enqueued[a], c) IN
                     /\ enqueued[a][i].arg = calls[c].arg
                     /\ calls[c].val = SumArgs(SubSeq(enqueued[a], 1, i))

\* C14 witness: call(Add(1)) returned 1 and the call(Add(2)) after it 3.
C14_Witness ==
    /\ calls[1] = Response(1, 1)
    /\ calls[2] = Response(2, 3)

\* C17: the startup hook completes before the loop consumes anything. Items
\* enqueued while started() is running (through the context's own address,
\* or an Addr already in the process-wide registry) stay queued; they are
\* executed only after started() returned Ok, in FIFO order.
C17_StartedBeforeLoop ==
    \A a \in ActorIds :
        /\ phase[a] \in {"created", "starting"} =>
             /\ loopPc[a] = "none"
             /\ inflight[a] = <<>>
             /\ dequeued[a] = <<>>
             /\ mailbox[a] = enqueued[a]
        /\ dequeued[a] # <<>> => phase[a] = "running"
        /\ IsPrefix(dequeued[a], enqueued[a])
        /\ log[a] = ExecArgs(dequeued[a])

\* C17 witness: two different messages enqueued before started() returned
\* have been handled, in their order.
C17_Witness ==
    \E a \in ActorIds :
        /\ phase[a] = "running"
        /\ pre[a] >= 2
        /\ Len(log[a]) >= 2
        /\ log[a][1] # log[a][2]


IsCallback(it, s) ==
    it.ref = s /\ it.tag \in {"s_started", "s_item", "s_finished"}

\* The callbacks of subscription s the loop has invoked, in order.
RECURSIVE CallbacksIn(_, _)
CallbacksIn(q, s) ==
    IF q = <<>> THEN <<>>
    ELSE (IF IsCallback(Head(q), s) THEN <<Head(q)>> ELSE <<>>)
         \o CallbacksIn(Tail(q), s)

Callbacks(a, s) == CallbacksIn(dequeued[a], s)

\* The callbacks of a stream of k items: started, the items in the stream's
\* order, finished.
FullLifecycle(s, k) ==
    <<ExecStream("s_started", s, 0)>>
    \o [j \in 1..k |-> ExecStream("s_item", s, j)]
    \o <<ExecStream("s_finished", s, 0)>>

\* finished has been invoked for subscription s and has returned.
FinishedDone(a, s) ==
    /\ ExecStream("s_finished", s, 0) \in
           {dequeued[a][i] : i \in 1..Len(dequeued[a])}
    /\ ExecStream("s_finished", s, 0) \notin
           {inflight[a][i] : i \in 1..Len(inflight[a])}

\* C13: the stream lifecycle. For a subscription to a finite stream of k items
\* the callbacks invoked are, in this order, started once, handle for each of
\* the k items in the stream's order, finished once; with no cancellation and
\* no other stop all of them are invoked. Once the default finished has run,
\* a Stop is queued and the actor stops: stopped() runs and the ExitSignal
\* fires.
C13_StreamLifecycle ==
    /\ [](\A a \in ActorIds, s \in Serials :
            /\ IsPrefix(Callbacks(a, s), FullLifecycle(s, stask[a][s].len))
            /\ FinishedDone(a, s) => HasStop(enqueued[a]))
    /\ <>[](\A a \in ActorIds, s \in Serials :
              /\ FinishedDone(a, s) =>
                    (stoppedCount[a] = 1 /\ exitCount[a] = 1)
              /\ (stask[a][s] # NoTask) =>
                    \/ Callbacks(a, s) = FullLifecycle(s, stask[a][s].len)
                    \/ stask[a][s].cnc
                    \/ HasStop(dequeued[a])
                    \/ phase[a] = "failed")

\* C13 witness: a stream of two items went through its whole lifecycle, never
\* cancelled, and the actor has stopped and fired its signal.
C13_Witness ==
    \E a \in ActorIds, s \in Serials :
        /\ stask[a][s].len = 2
        /\ ~stask[a][s].cnc
        /\ Callbacks(a, s) = FullLifecycle(s, 2)
        /\ loopPc[a] = "done"
        /\ stoppedCount[a] = 1
        /\ exitCount[a] = 1

\* The loop reads an item in this step.
Reads(a) == Len(dequeued'[a]) = Len(dequeued[a]) + 1

LastRead(a) == dequeued'[a][Len(dequeued'[a])]

\* C18: cancelling a stream subscription, explicitly by id or at shutdown,
\* aborts its task without running finished: once the subscription is
\* cancelled, finished is never invoked for it and no further item of its
\* stream is handled, also when the stream ended just before the cancel.
C18_CancelledStreamSilent ==
    [][\A a \in ActorIds, s \in Serials :
         (stask[a][s].cnc /\ Reads(a)) =>
             ~( /\ LastRead(a).ref = s
                /\ LastRead(a).tag \in {"s_item", "s_finished"} )
      ]_vars

\* C19: subscription ids. The live stream tasks of an actor have pairwise
\* distinct ids, and processing RemoveStream(id) removes only the handle of
\* the subscription that enqueued it: it is a no-op when that handle is gone,
\* and never removes the handle of a newer subscription that got the id after
\* an explicit cancel.
C19_SubscriptionIds ==
    /\ [](\A a \in ActorIds, s1, s2 \in Serials :
            ( /\ TaskAlive(stask[a][s1]) /\ TaskAlive(stask[a][s2])
              /\ stask[a][s1].id = stask[a][s2].id )
            => s1 = s2)
    /\ [][\A a \in ActorIds :
            (Reads(a) /\ LastRead(a).kind = "RemoveStream") =>
                \A i \in SubIds :
                    owner'[a][i] # owner[a][i] =>
                        owner[a][i] = LastRead(a).ref
        ]_vars

=============================================================================
